---- MODULE Spec2Model ----
(***************************************************************************)
(* Model of build.py, the staged build pipeline of vosk-api (main,         *)
(* VoskBuilder.build and the stages it calls).                             *)
(*                                                                         *)
(* A state is a position in main or VoskBuilder.build with what the run    *)
(* has printed, which subprocesses it has started and the process exit     *)
(* code.  Every call that leaves the process (subprocess.run, a file       *)
(* system probe, an import) has an outcome chosen by the host; the model   *)
(* draws it nondeterministically when the call is made.  Python exceptions *)
(* are values: "none", "SystemExit", "KeyboardInterrupt", "Exception".     *)
(***************************************************************************)
EXTENDS Naturals, Sequences, FiniteSets, TLC

VARIABLES
    argv,                  \* the options as given on the command line
    inherited,             \* the build variables the host has exported
    build_dir,             \* the directory build/ beside build.py: "absent",
                           \*   "old" (holds what was there before the run)
                           \*   or "fresh" (holds nothing from before)
    summary,               \* the lines print_summary has printed
    given,                 \* <<command, environment>> of every subprocess
                           \*   run_command has started
    args,                  \* the argparse namespace handed to VoskBuilder
                           \*   (the command line until parse_args returns)
    pc,                    \* the statement of main or of VoskBuilder.build
                           \*   about to run
    environ,               \* os.environ['KALDI_ROOT'] of the build process
    probed,                \* required tools check_dependencies has probed
    missing_tools,         \* check_dependencies' local list missing_tools
    packages_checked,      \* how many of python_packages have been handled
    dependencies_checked,  \* self.dependencies_checked
    kaldi_root,            \* what setup_kaldi_environment returned
    env,                   \* the mapping setup_build_environment returned
    started,               \* the stages that have started, in order
    cmds,                  \* the commands handed to run_command so far
    out,                   \* the [ERROR]/[WARNING]/summary lines printed
    reported,              \* the tools named by the missing-dependency error
    exitCode,              \* the process exit code, once pc = "exit"
    host                   \* what the host answered so far (history only):
                           \*   absent: commands whose --version probe failed
                           \*   failed: <<command, outcome>> of run_command
                           \*     calls that exited nonzero or were not found
                           \*   interrupted: commands hit by Ctrl-C
                           \*   toolchain: how Kaldi can be found on the host
                           \*   kaldi_root_names: what the path in KALDI_ROOT
                           \*     is on the host
                           \*   build_dir: build_dir when main was entered
                           \*   oserror: the file-system calls that raised

vars == <<argv, inherited, build_dir, summary, given, args, pc, environ,
          probed, missing_tools, packages_checked, dependencies_checked,
          kaldi_root, env, started, cmds, out, reported, exitCode, host>>

-----------------------------------------------------------------------------
(* Static tables of the program *)

\* check_dependencies: required_tools, in dict order
RequiredTools == <<"cmake", "make", "g++", "python3", "git">>

\* check_dependencies: python_packages
PythonPackages == <<"cffi", "setuptools", "wheel">>

\* setup_kaldi_environment: common_kaldi_paths
CommonKaldiPaths ==
    <<"../kaldi", "~/kaldi", "~/travis/kaldi", "/opt/kaldi", "/usr/local/kaldi">>

-----------------------------------------------------------------------------
(* The host: what a call that leaves the process can come back with *)

\* subprocess.run: exit 0, exit nonzero, executable (or cwd) not found,
\* or Ctrl-C while the call blocks
Outcomes == {"ok", "nonzero", "notfound", "interrupt"}

\* a candidate directory: absent, present without src/, present with src/
PathStates == {"absent", "nosrc", "ok"}

\* what the path in KALDI_ROOT names on the host
PathKinds == {"absent", "file", "directory"}

\* the flags of main's parser that VoskBuilder.build branches on
ArgsSpace ==
    [bindings_only : BOOLEAN, force : BOOLEAN, use_cmake : BOOLEAN,
     python : BOOLEAN, java : BOOLEAN, csharp : BOOLEAN, wheel : BOOLEAN,
     test : BOOLEAN, install : BOOLEAN]

\* KALDI_ROOT as the build process inherits it
InheritedKaldiRoot == {"unset", "$KALDI_ROOT"}

\* main: choices= and default= of --config and --math-lib
ConfigChoices == {"Debug", "Release", "RelWithDebInfo"}

\* mutant of config_default: the parser's default is RelWithDebInfo
config_default_relwithdebinfo == "RelWithDebInfo"

config_default == "Release"

MathLibChoices == {"openblas", "mkl", "auto"}

math_lib_default == "auto"

\* an option that is not on the command line
Omitted == "<omitted>"

\* what a user can write after --config and after --math-lib: a choice,
\* nothing at all, or a word that is no choice
GivenConfigs == ConfigChoices \cup {Omitted, "Fastest"}

GivenMathLibs == MathLibChoices \cup {Omitted, "atlas"}

\* the options of main's parser besides the flags of ArgsSpace
OptionSpace ==
    [config : GivenConfigs, math_lib : GivenMathLibs, cuda : BOOLEAN,
     clean : BOOLEAN]

\* a command line that carries none of them
NoOptions ==
    [config |-> Omitted, math_lib |-> Omitted, cuda |-> FALSE,
     clean |-> FALSE]

\* the variables setup_build_environment writes, and the rest of what a
\* subprocess environment holds in this model
BuildKeys ==
    {"CMAKE_BUILD_TYPE", "EXTRA_CFLAGS", "HAVE_OPENBLAS_CLAPACK", "HAVE_MKL",
     "HAVE_CUDA"}

EnvKeys == BuildKeys \cup {"KALDI_ROOT", "VOSK_SOURCE"}

\* the value of a build variable the host has exported; the program never
\* writes this value itself
HostValue == "$inherited"

\* the state of a directory: mkdir or rmtree succeed, or raise an OSError
FsOutcomes == {"ok", "oserror"}

-----------------------------------------------------------------------------
(* Exceptions and messages *)

\* error: the status handed to sys.exit
error_exit_code == 1

\* mutant of error_raises: error prints and returns
error_returns == "none"

\* error: sys.exit raises SystemExit after the [ERROR] line is printed
error_raises == "SystemExit"

\* check_command: True iff `<cmd> --version` ran and exited 0
\* (CalledProcessError and FileNotFoundError are caught and give False)
check_command(o) == o = "ok"

\* mutant of run_command_check: subprocess.run is called with check=False
run_command_check_off == FALSE

\* run_command: the default of its parameter `check`, which every caller
\* leaves alone
run_command_check == TRUE

\* run_command: the exception the call leaves with
run_command_raises(o) ==
    CASE o = "ok"        -> "none"
      [] o = "nonzero"   -> IF run_command_check  \* CalledProcessError -> error
                              THEN error_raises
                              ELSE "none"
      [] o = "notfound"  -> error_raises          \* FileNotFoundError -> error
      [] o = "interrupt" -> "KeyboardInterrupt"   \* not caught by run_command

\* run_command: the [ERROR] line it prints
run_command_prints(o) ==
    CASE o = "nonzero"  -> IF run_command_check
                             THEN <<"ERROR: Command failed">>
                             ELSE <<>>
      [] o = "notfound" -> <<"ERROR: Command not found">>
      [] OTHER          -> <<>>

\* build: the except clauses.  SystemExit is no Exception and passes through;
\* the other two are reported through error.
build_except(raised) ==
    CASE raised = "BuildError"        -> <<"ERROR: BuildError">>
      [] raised = "KeyboardInterrupt" -> <<"ERROR: Build interrupted by user">>
      [] raised = "Exception"         -> <<"ERROR: Unexpected error">>
      [] OTHER                        -> <<>>

\* mutant of after: the C# binding is built before the Java binding
after_csharp_first(stage) ==
    CASE stage = "check_dependencies"      -> "setup_kaldi_environment"
      [] stage = "setup_kaldi_environment" -> "setup_build_environment"
      [] stage = "setup_build_environment" -> "build_cpp_library"
      [] stage = "build_cpp_library"       -> "build_python_bindings"
      [] stage = "build_python_bindings"   -> "build_csharp_bindings"
      [] stage = "build_csharp_bindings"   -> "build_java_bindings"
      [] stage = "build_java_bindings"     -> "run_tests"
      [] stage = "run_tests"               -> "install"
      [] stage = "install"                 -> "print_summary"
      [] stage = "print_summary"           -> "exit"

\* build: the statement that follows the call of `stage`
after(stage) ==
    CASE stage = "check_dependencies"      -> "setup_kaldi_environment"
      [] stage = "setup_kaldi_environment" -> "setup_build_environment"
      [] stage = "setup_build_environment" -> "build_cpp_library"
      [] stage = "build_cpp_library"       -> "build_python_bindings"
      [] stage = "build_python_bindings"   -> "build_java_bindings"
      [] stage = "build_java_bindings"     -> "build_csharp_bindings"
      [] stage = "build_csharp_bindings"   -> "run_tests"
      [] stage = "run_tests"               -> "install"
      [] stage = "install"                 -> "print_summary"
      [] stage = "print_summary"           -> "exit"

\* mutant of needs_native_core: the flag is not consulted
native_core_always == TRUE

\* build: `if not self.args.bindings_only` around the locator and the backend
needs_native_core == ~args.bindings_only

\* mutant of tests_except_catches: the clause reads `except Exception:`
tests_except_exception(raised) == raised = "Exception"

\* run_tests: the bare `except:` catches every exception, SystemExit and
\* KeyboardInterrupt included
tests_except_catches(raised) == raised # "none"

\* setup_kaldi_environment: index of the first entry of common_kaldi_paths
\* that exists and holds src/, 0 when there is none
first_kaldi_path(fs) ==
    IF \E i \in DOMAIN fs : fs[i] = "ok"
      THEN CHOOSE i \in DOMAIN fs :
               fs[i] = "ok" /\ \A j \in DOMAIN fs : j < i => fs[j] # "ok"
      ELSE 0

-----------------------------------------------------------------------------
(* The command line and the environment mappings *)

\* parse_args: the status argparse exits with on a value outside choices
parser_exit_code == 2

\* an exception nothing catches: the interpreter prints the traceback and
\* exits with this status
uncaught_exit_code == 1

\* mutant of parse_args_rejects: the options are declared without choices=
parse_args_accepts(line) == FALSE

\* parse_args: a value outside `choices` is an error
parse_args_rejects(line) ==
    \/ line.config \notin ConfigChoices \cup {Omitted}
    \/ line.math_lib \notin MathLibChoices \cup {Omitted}

\* parse_args: the namespace, where an option not given has its default
parse_args(line) ==
    [line EXCEPT
       !.config = IF @ = Omitted THEN config_default ELSE @,
       !.math_lib = IF @ = Omitted THEN math_lib_default ELSE @]

\* os.environ of the build process as it is now; "unset" marks a variable
\* the mapping does not hold
os_environ ==
    [k \in EnvKeys |->
       IF k = "KALDI_ROOT" THEN environ
       ELSE IF k \in inherited THEN HostValue
       ELSE "unset"]

\* the assignments env[key] = value of `entries`, applied to `base`
Overlay(base, entries) ==
    [k \in DOMAIN base |->
       IF k \in DOMAIN entries THEN entries[k] ELSE base[k]]

\* setup_build_environment: `if self.args.config == 'Release': ... elif
\* self.args.config == 'Debug': ... else: ...`
config_entries(config) ==
    CASE config = "Release" ->
           [CMAKE_BUILD_TYPE |-> "Release", EXTRA_CFLAGS |-> "-O3 -DNDEBUG"]
      [] config = "Debug" ->
           [CMAKE_BUILD_TYPE |-> "Debug", EXTRA_CFLAGS |-> "-g -O0"]
      [] OTHER ->
           [CMAKE_BUILD_TYPE |-> "RelWithDebInfo", EXTRA_CFLAGS |-> "-O2 -g"]

\* mutant of math_lib_entries: auto clears both variables
math_lib_entries_auto_clears(math_lib) ==
    CASE math_lib = "openblas" ->
           [HAVE_OPENBLAS_CLAPACK |-> "1", HAVE_MKL |-> "0"]
      [] math_lib = "mkl" ->
           [HAVE_OPENBLAS_CLAPACK |-> "0", HAVE_MKL |-> "1"]
      [] OTHER ->
           [HAVE_OPENBLAS_CLAPACK |-> "unset", HAVE_MKL |-> "unset"]

\* setup_build_environment: `if self.args.math_lib == 'openblas': ... elif
\* self.args.math_lib == 'mkl': ...`; auto writes nothing
math_lib_entries(math_lib) ==
    CASE math_lib = "openblas" ->
           [HAVE_OPENBLAS_CLAPACK |-> "1", HAVE_MKL |-> "0"]
      [] math_lib = "mkl" ->
           [HAVE_OPENBLAS_CLAPACK |-> "0", HAVE_MKL |-> "1"]
      [] OTHER -> [k \in {} |-> "unset"]

\* setup_build_environment: `if self.args.cuda:`
cuda_entries(cuda) == [HAVE_CUDA |-> IF cuda THEN "1" ELSE "0"]

\* mutant of synthesize: the mapping starts empty, not from os.environ
synthesize_from_nothing(base) ==
    Overlay(Overlay(Overlay([k \in EnvKeys |-> "unset"],
                            config_entries(args.config)),
                    math_lib_entries(args.math_lib)),
            cuda_entries(args.cuda))

\* setup_build_environment: the mapping it returns when os.environ is `base`
synthesize(base) ==
    Overlay(Overlay(Overlay(base, config_entries(args.config)),
                    math_lib_entries(args.math_lib)),
            cuda_entries(args.cuda))

\* the commands of build_with_cmake and build_with_make
BackendCommands == {"cmake -B build -S .", "cmake --build build", "make -C src"}

\* the commands of build_python_bindings
PythonBuildCommands ==
    {"python vosk_builder.py", "python setup.py bdist_wheel",
     "pip install -e ."}

\* mutant of env_argument: every call site passes the synthesized mapping
env_argument_synthesized(cmd) == "env"

\* the env= argument at the call site of run_command that starts `cmd`
env_argument(cmd) ==
    CASE cmd \in BackendCommands     -> "env"
      [] cmd \in PythonBuildCommands -> "os.environ.copy() + VOSK_SOURCE"
      [] OTHER                       -> "None"

\* the environment the subprocess `cmd` is started with; env=None makes
\* subprocess.run hand the child the process environment
process_env(cmd) ==
    CASE env_argument(cmd) = "env" -> env
      [] env_argument(cmd) = "os.environ.copy() + VOSK_SOURCE" ->
           Overlay(os_environ, [VOSK_SOURCE |-> "repo_root"])
      [] OTHER -> os_environ

-----------------------------------------------------------------------------
(* Building blocks of the actions *)

\* history: run_command calls subprocess.run for `cmd`
Start(cmd) ==
    /\ cmds' = cmds \cup {cmd}
    /\ given' = given \cup {<<cmd, process_env(cmd)>>}

\* an exception leaves the running stage and reaches build's handlers: a
\* SystemExit ends the process with its status, the others are handed to
\* error, which ends it the same way
Raise(printed, raised) ==
    /\ out' = out \o printed \o build_except(raised)
    /\ exitCode' = IF raised = "SystemExit" \/ error_raises = "SystemExit"
                     THEN error_exit_code
                     ELSE 0
    /\ pc' = "exit"

\* the running stage goes on at `next` after printing `printed`
Continue(printed, next) ==
    /\ out' = out \o printed
    /\ exitCode' = exitCode
    /\ pc' = next

\* history: the host's answer to subprocess.run of `cmd` in run_command
Observe(cmd, o) ==
    host' = [host EXCEPT
               !.failed = IF o \in {"nonzero", "notfound"}
                            THEN @ \cup {<<cmd, o>>} ELSE @,
               !.interrupted = IF o = "interrupt" THEN @ \cup {cmd} ELSE @]

\* history: the host's answer to `cmd --version` in check_command
ObserveProbe(cmd, o) ==
    host' = [host EXCEPT
               !.absent = IF o \in {"nonzero", "notfound"}
                            THEN @ \cup {cmd} ELSE @,
               !.interrupted = IF o = "interrupt" THEN @ \cup {cmd} ELSE @]

\* self.error(msg) as a statement whose successor is `next`
Error(printed, msg, next) ==
    IF error_raises = "none"
      THEN Continue(printed \o <<msg>>, next)
      ELSE Raise(printed \o <<msg>>, error_raises)

\* self.run_command(cmd, ...) as a statement whose successor is `next`
RunCommand(cmd, o, next) ==
    /\ Start(cmd)
    /\ Observe(cmd, o)
    /\ IF run_command_raises(o) = "none"
         THEN Continue(run_command_prints(o), next)
         ELSE Raise(run_command_prints(o), run_command_raises(o))

\* try: self.run_command(cmd, ...) except: self.warning(warn), in run_tests
TryRunCommand(cmd, o, warn, next) ==
    /\ Start(cmd)
    /\ Observe(cmd, o)
    /\ IF run_command_raises(o) = "none"
         THEN Continue(run_command_prints(o), next)
         ELSE IF tests_except_catches(run_command_raises(o))
                THEN Continue(run_command_prints(o) \o <<warn>>, next)
                ELSE Raise(run_command_prints(o), run_command_raises(o))

Begin(stage) == started' = Append(started, stage)

-----------------------------------------------------------------------------
(* The state when main is entered *)

\* the command lines of Spec: every combination of the flags, the other
\* options left out
ArgvSpace == {flags @@ NoOptions : flags \in ArgsSpace}

\* main is entered with a command line of `lines`, on a host that exports
\* one of the sets `exported` of build variables and whose build directory
\* is in one of the states `dirs`
InitWith(lines, exported, dirs) ==
    /\ argv \in lines
    /\ inherited \in exported
    /\ build_dir \in dirs
    /\ summary = <<>>
    /\ given = {}
    /\ args = argv
    /\ environ \in InheritedKaldiRoot
    /\ pc = "parse_args"
    /\ probed = <<>>
    /\ missing_tools = <<>>
    /\ packages_checked = 0
    /\ dependencies_checked = FALSE
    /\ kaldi_root = "not called"
    /\ env = <<>>
    /\ started = <<>>
    /\ cmds = {}
    /\ out = <<>>
    /\ reported = {}
    /\ exitCode = 0
    /\ host = [absent |-> {}, failed |-> {}, interrupted |-> {},
               toolchain |-> "unprobed", kaldi_root_names |-> "unprobed",
               build_dir |-> build_dir, oserror |-> {}]

\* a checkout that was never built, on a host that exports no build variable
Init == InitWith(ArgvSpace, {{}}, {"absent"})

-----------------------------------------------------------------------------
(* main *)

\* `args = parser.parse_args()`: argparse writes its usage message, which is
\* none of the program's log lines, and exits
ParseArgs ==
    /\ pc = "parse_args"
    /\ IF parse_args_rejects(argv)
         THEN /\ args' = args
              /\ exitCode' = parser_exit_code
              /\ pc' = "exit"
         ELSE /\ args' = parse_args(argv)
              /\ exitCode' = exitCode
              /\ pc' = "clean"
    /\ UNCHANGED <<argv, inherited, build_dir, summary, given, environ,
                   probed, missing_tools, packages_checked,
                   dependencies_checked, kaldi_root, env, started, cmds, out,
                   reported, host>>

\* mutant of Clean: --clean is parsed and never acted on
Clean_ignored ==
    /\ pc = "clean"
    /\ pc' = "check_dependencies"
    /\ UNCHANGED <<argv, inherited, build_dir, summary, given, args, environ,
                   probed, missing_tools, packages_checked,
                   dependencies_checked, kaldi_root, env, started, cmds, out,
                   reported, exitCode, host>>

\* `if args.clean: if build_dir.exists(): shutil.rmtree(build_dir)`, then
\* `builder = VoskBuilder(args); builder.build()`.  An OSError of rmtree is
\* caught by nothing.
Clean ==
    /\ pc = "clean"
    /\ IF args.clean /\ build_dir # "absent"
         THEN \E r \in FsOutcomes :
                IF r = "ok"
                  THEN /\ build_dir' = "absent"
                       /\ host' = host
                       /\ exitCode' = exitCode
                       /\ pc' = "check_dependencies"
                  ELSE /\ build_dir' = build_dir
                       /\ host' = [host EXCEPT !.oserror = @ \cup {"rmtree"}]
                       /\ exitCode' = uncaught_exit_code
                       /\ pc' = "exit"
         ELSE /\ build_dir' = build_dir
              /\ host' = host
              /\ exitCode' = exitCode
              /\ pc' = "check_dependencies"
    /\ UNCHANGED <<argv, inherited, summary, given, args, environ, probed,
                   missing_tools, packages_checked, dependencies_checked,
                   kaldi_root, env, started, cmds, out, reported>>

-----------------------------------------------------------------------------
(* check_dependencies *)

CheckDependencies ==
    /\ pc = "check_dependencies"
    /\ Begin("check_dependencies")
    /\ pc' = "probe_tool"
    /\ UNCHANGED <<argv, inherited, build_dir, summary, args, environ, probed,
                   missing_tools, packages_checked, dependencies_checked,
                   kaldi_root, env, cmds, given, out, reported, exitCode,
                   host>>

\* mutant of ProbeNext: the missing-tool check sits inside the loop
ProbeNext_in_loop(n) == "missing_check"

\* one turn of `for tool, description in required_tools.items()`
ProbeNext(n) == IF n = Len(RequiredTools) THEN "missing_check" ELSE "probe_tool"

ProbeTool ==
    /\ pc = "probe_tool"
    /\ \E o \in Outcomes :
         LET tool == RequiredTools[Len(probed) + 1] IN
         /\ probed' = Append(probed, tool)
         /\ ObserveProbe(tool, o)
         /\ IF o = "interrupt"
              THEN /\ Raise(<<>>, "KeyboardInterrupt")
                   /\ UNCHANGED missing_tools
              ELSE /\ missing_tools' = IF check_command(o)
                                         THEN missing_tools
                                         ELSE Append(missing_tools, tool)
                   /\ Continue(<<>>, ProbeNext(Len(probed')))
    /\ UNCHANGED <<argv, inherited, build_dir, summary, args, environ,
                   packages_checked, dependencies_checked, kaldi_root, env,
                   started, cmds, given, reported>>

\* `if missing_tools: self.error(...)`, then `if self.args.python:`
MissingCheck ==
    /\ pc = "missing_check"
    /\ IF missing_tools # <<>>
         THEN /\ reported' = {missing_tools[i] : i \in DOMAIN missing_tools}
              /\ Error(<<>>, "ERROR: Missing required dependencies",
                       "python_packages")
         ELSE /\ reported' = reported
              /\ Continue(<<>>, "python_packages")
    /\ UNCHANGED <<argv, inherited, build_dir, summary, args, environ, probed,
                   missing_tools, packages_checked, dependencies_checked,
                   kaldi_root, env, started, cmds, given, host>>

\* one turn of `for package in python_packages` up to the end of its try
\* clause, or the end of the function
PythonPackage ==
    /\ pc = "python_packages"
    /\ IF args.python /\ packages_checked < Len(PythonPackages)
         THEN /\ packages_checked' = packages_checked + 1
              /\ dependencies_checked' = dependencies_checked
              /\ \E importable \in BOOLEAN :
                   IF importable
                     THEN Continue(<<>>, "python_packages")
                     ELSE Continue(<<>>, "pip_install")
         ELSE /\ dependencies_checked' = TRUE
              /\ packages_checked' = packages_checked
              /\ Continue(<<>>, after("check_dependencies"))
    /\ UNCHANGED <<argv, inherited, build_dir, summary, args, environ, probed,
                   missing_tools, kaldi_root, env, started, cmds, given,
                   reported, host>>

\* mutant of PipInstall: under --force a failed install is a warning and the
\* loop goes on
PipInstall_forced ==
    /\ pc = "pip_install"
    /\ \E o \in Outcomes :
         IF args.force /\ o \in {"nonzero", "notfound"}
           THEN /\ Start("pip install")
                /\ Observe("pip install", o)
                /\ Continue(<<"WARNING: Package install failed">>,
                            "python_packages")
           ELSE RunCommand("pip install", o, "python_packages")
    /\ UNCHANGED <<argv, inherited, build_dir, summary, args, environ, probed,
                   missing_tools, packages_checked, dependencies_checked,
                   kaldi_root, env, started, reported>>

\* `except ImportError:` the install of the package the loop is at
PipInstall ==
    /\ pc = "pip_install"
    /\ \E o \in Outcomes :
         RunCommand("pip install", o, "python_packages")
    /\ UNCHANGED <<argv, inherited, build_dir, summary, args, environ, probed,
                   missing_tools, packages_checked, dependencies_checked,
                   kaldi_root, env, started, reported>>

-----------------------------------------------------------------------------
(* setup_kaldi_environment *)

\* `kaldi_root and Path(kaldi_root).exists()`
kaldi_root_usable(value, exists) == value # "unset" /\ exists

\* mutant of kaldi_missing_is_fatal: --force is not consulted
kaldi_missing_always_fatal == TRUE

\* `if not self.args.force: self.error(...)`
kaldi_missing_is_fatal == ~args.force

\* history: where the host holds a Kaldi installation
Toolchain(exists, fs) ==
    IF environ # "unset" /\ exists THEN "variable"
    ELSE IF \E i \in DOMAIN fs : fs[i] = "ok" THEN "list"
    ELSE "none"

\* the body of setup_kaldi_environment on a host where Path(KALDI_ROOT)
\* exists iff `exists` and the candidate directories are as `fs`
LocateKaldi(exists, fs) ==
    IF kaldi_root_usable(environ, exists)
      THEN /\ kaldi_root' = environ
           /\ environ' = environ
           /\ Continue(<<>>, after("setup_kaldi_environment"))
      ELSE IF first_kaldi_path(fs) # 0
        THEN /\ environ' = CommonKaldiPaths[first_kaldi_path(fs)]
             /\ kaldi_root' = CommonKaldiPaths[first_kaldi_path(fs)]
             /\ Continue(<<>>, after("setup_kaldi_environment"))
        ELSE /\ environ' = environ
             /\ IF kaldi_missing_is_fatal
                  THEN /\ kaldi_root' = IF error_raises = "none"
                                          THEN "None"
                                          ELSE kaldi_root
                       /\ Error(<<"WARNING: Kaldi not found",
                                  "Kaldi Setup Instructions">>,
                                "ERROR: Kaldi is required",
                                after("setup_kaldi_environment"))
                  ELSE /\ kaldi_root' = "None"
                       /\ Continue(<<"WARNING: Kaldi not found",
                                     "Kaldi Setup Instructions",
                                     "WARNING: Continuing without Kaldi">>,
                                   after("setup_kaldi_environment"))

SetupKaldiEnvironment ==
    /\ pc = "setup_kaldi_environment"
    /\ IF ~needs_native_core
         THEN /\ Continue(<<>>, after("setup_kaldi_environment"))
              /\ UNCHANGED <<environ, kaldi_root, started, host>>
         ELSE /\ Begin("setup_kaldi_environment")
              /\ \E names \in PathKinds,
                    fs \in [DOMAIN CommonKaldiPaths -> PathStates] :
                   /\ host' = [host EXCEPT
                                 !.toolchain = Toolchain(names # "absent", fs),
                                 !.kaldi_root_names =
                                    IF environ = "unset" THEN "absent"
                                                         ELSE names]
                   /\ LocateKaldi(names # "absent", fs)
    /\ UNCHANGED <<argv, inherited, build_dir, summary, args, probed,
                   missing_tools, packages_checked, dependencies_checked, env,
                   cmds, given, reported>>

-----------------------------------------------------------------------------
(* setup_build_environment *)

\* `self.build_dir.mkdir(exist_ok=True)`, then `env = os.environ.copy()`
\* and the assignments from config, math_lib and cuda.  An OSError of mkdir
\* reaches build's `except Exception`.
SetupBuildEnvironment ==
    /\ pc = "setup_build_environment"
    /\ Begin("setup_build_environment")
    /\ IF build_dir = "absent"
         THEN \E m \in FsOutcomes :
                IF m = "ok"
                  THEN /\ build_dir' = "fresh"
                       /\ env' = synthesize(os_environ)
                       /\ host' = host
                       /\ Continue(<<>>, after("setup_build_environment"))
                  ELSE /\ build_dir' = build_dir
                       /\ env' = env
                       /\ host' = [host EXCEPT !.oserror = @ \cup {"mkdir"}]
                       /\ Raise(<<>>, "Exception")
         ELSE /\ build_dir' = build_dir
              /\ env' = synthesize(os_environ)
              /\ host' = host
              /\ Continue(<<>>, after("setup_build_environment"))
    /\ UNCHANGED <<argv, inherited, summary, args, environ, probed,
                   missing_tools, packages_checked, dependencies_checked,
                   kaldi_root, cmds, given, reported>>

-----------------------------------------------------------------------------
(* build_cpp_library, build_with_cmake, build_with_make *)

BuildCppLibrary ==
    /\ pc = "build_cpp_library"
    /\ IF ~needs_native_core
         THEN /\ Continue(<<>>, after("build_cpp_library"))
              /\ UNCHANGED <<started, cmds, given, host>>
         ELSE /\ Begin("build_cpp_library")
              /\ \E o \in Outcomes :
                   IF args.use_cmake
                     THEN RunCommand("cmake -B build -S .", o, "cmake_build")
                     ELSE RunCommand("make -C src", o,
                                     after("build_cpp_library"))
    /\ UNCHANGED <<argv, inherited, build_dir, summary, args, environ, probed,
                   missing_tools, packages_checked, dependencies_checked,
                   kaldi_root, env, reported>>

\* build_with_cmake: the second run_command
CmakeBuild ==
    /\ pc = "cmake_build"
    /\ \E o \in Outcomes :
         RunCommand("cmake --build build", o, after("build_cpp_library"))
    /\ UNCHANGED <<argv, inherited, build_dir, summary, args, environ, probed,
                   missing_tools, packages_checked, dependencies_checked,
                   kaldi_root, env, started, reported>>

-----------------------------------------------------------------------------
(* build_python_bindings *)

BuildPythonBindings ==
    /\ pc = "build_python_bindings"
    /\ IF ~args.python
         THEN /\ Continue(<<>>, after("build_python_bindings"))
              /\ UNCHANGED <<started, cmds, given, host>>
         ELSE /\ Begin("build_python_bindings")
              /\ \E o \in Outcomes :
                   RunCommand("python vosk_builder.py", o, "python_package")
    /\ UNCHANGED <<argv, inherited, build_dir, summary, args, environ, probed,
                   missing_tools, packages_checked, dependencies_checked,
                   kaldi_root, env, reported>>

\* mutant of PythonPackageBuild: under --force a failed packaging command is
\* downgraded to a warning
PythonPackageBuild_forced ==
    /\ pc = "python_package"
    /\ \E o \in Outcomes :
         LET cmd == IF args.wheel THEN "python setup.py bdist_wheel"
                                  ELSE "pip install -e ." IN
         IF args.force /\ o \in {"nonzero", "notfound"}
           THEN /\ Start(cmd)
                /\ Observe(cmd, o)
                /\ Continue(<<"WARNING: Python bindings failed">>,
                            after("build_python_bindings"))
           ELSE RunCommand(cmd, o, after("build_python_bindings"))
    /\ UNCHANGED <<argv, inherited, build_dir, summary, args, environ, probed,
                   missing_tools, packages_checked, dependencies_checked,
                   kaldi_root, env, started, reported>>

\* `if self.args.wheel:` bdist_wheel, else the editable install
PythonPackageBuild ==
    /\ pc = "python_package"
    /\ \E o \in Outcomes :
         RunCommand(IF args.wheel THEN "python setup.py bdist_wheel"
                                  ELSE "pip install -e .",
                    o, after("build_python_bindings"))
    /\ UNCHANGED <<argv, inherited, build_dir, summary, args, environ, probed,
                   missing_tools, packages_checked, dependencies_checked,
                   kaldi_root, env, started, reported>>

-----------------------------------------------------------------------------
(* build_java_bindings *)

\* mutant of ProbeToolchain: a missing toolchain is reported through error
ProbeToolchain_error(tool, o, warn, found, stage) ==
    /\ ObserveProbe(tool, o)
    /\ IF o = "interrupt"
         THEN Raise(<<>>, "KeyboardInterrupt")
         ELSE IF check_command(o)
                THEN Continue(<<>>, found)
                ELSE Error(<<>>, "ERROR: Command not found", after(stage))

\* a check_command of a binding's toolchain: Ctrl-C leaves the stage, a
\* missing tool warns and returns from the stage, a found one goes on
ProbeToolchain(tool, o, warn, found, stage) ==
    /\ ObserveProbe(tool, o)
    /\ IF o = "interrupt"
         THEN Raise(<<>>, "KeyboardInterrupt")
         ELSE IF check_command(o)
                THEN Continue(<<>>, found)
                ELSE Continue(<<warn>>, after(stage))

BuildJavaBindings ==
    /\ pc = "build_java_bindings"
    /\ IF ~args.java
         THEN /\ Continue(<<>>, after("build_java_bindings"))
              /\ UNCHANGED <<started, host>>
         ELSE /\ Begin("build_java_bindings")
              /\ \E o \in Outcomes :
                   ProbeToolchain("javac", o, "WARNING: Java compiler not found",
                                  "java_jar", "build_java_bindings")
    /\ UNCHANGED <<argv, inherited, build_dir, summary, args, environ, probed,
                   missing_tools, packages_checked, dependencies_checked,
                   kaldi_root, env, cmds, given, reported>>

\* `or not self.check_command('jar')`, evaluated only when javac was found
JavaJar ==
    /\ pc = "java_jar"
    /\ \E o \in Outcomes :
         ProbeToolchain("jar", o, "WARNING: Java compiler not found",
                        "java_make", "build_java_bindings")
    /\ UNCHANGED <<argv, inherited, build_dir, summary, args, environ, probed,
                   missing_tools, packages_checked, dependencies_checked,
                   kaldi_root, env, started, cmds, given, reported>>

JavaMake ==
    /\ pc = "java_make"
    /\ \E o \in Outcomes :
         RunCommand("make -C java", o, after("build_java_bindings"))
    /\ UNCHANGED <<argv, inherited, build_dir, summary, args, environ, probed,
                   missing_tools, packages_checked, dependencies_checked,
                   kaldi_root, env, started, reported>>

-----------------------------------------------------------------------------
(* build_csharp_bindings *)

BuildCsharpBindings ==
    /\ pc = "build_csharp_bindings"
    /\ IF ~args.csharp
         THEN /\ Continue(<<>>, after("build_csharp_bindings"))
              /\ UNCHANGED <<started, host>>
         ELSE /\ Begin("build_csharp_bindings")
              /\ \E o \in Outcomes :
                   ProbeToolchain("dotnet", o, "WARNING: .NET SDK not found",
                                  "dotnet_build", "build_csharp_bindings")
    /\ UNCHANGED <<argv, inherited, build_dir, summary, args, environ, probed,
                   missing_tools, packages_checked, dependencies_checked,
                   kaldi_root, env, cmds, given, reported>>

DotnetBuild ==
    /\ pc = "dotnet_build"
    /\ \E o \in Outcomes :
         RunCommand("dotnet build", o, after("build_csharp_bindings"))
    /\ UNCHANGED <<argv, inherited, build_dir, summary, args, environ, probed,
                   missing_tools, packages_checked, dependencies_checked,
                   kaldi_root, env, started, reported>>

-----------------------------------------------------------------------------
(* run_tests *)

\* the C test: `if c_dir.exists(): try: run_command(['make'], cwd=c_dir)`
RunTests ==
    /\ pc = "run_tests"
    /\ IF ~args.test
         THEN /\ Continue(<<>>, after("run_tests"))
              /\ UNCHANGED <<started, cmds, given, host>>
         ELSE /\ Begin("run_tests")
              /\ \E c_dir_exists \in BOOLEAN :
                   IF c_dir_exists
                     THEN \E o \in Outcomes :
                            TryRunCommand("make -C c", o,
                                          "WARNING: C tests failed",
                                          "tests_python")
                     ELSE /\ Continue(<<>>, "tests_python")
                          /\ UNCHANGED <<cmds, given, host>>
    /\ UNCHANGED <<argv, inherited, build_dir, summary, args, environ, probed,
                   missing_tools, packages_checked, dependencies_checked,
                   kaldi_root, env, reported>>

\* the Python test: `if self.args.python: if python_test_dir.exists(): try:`
TestsPython ==
    /\ pc = "tests_python"
    /\ \E test_dir_exists \in BOOLEAN :
         IF args.python /\ test_dir_exists
           THEN \E o \in Outcomes :
                  TryRunCommand("python -c import vosk", o,
                                "WARNING: Python tests failed",
                                after("run_tests"))
           ELSE /\ Continue(<<>>, after("run_tests"))
                /\ UNCHANGED <<cmds, given, host>>
    /\ UNCHANGED <<argv, inherited, build_dir, summary, args, environ, probed,
                   missing_tools, packages_checked, dependencies_checked,
                   kaldi_root, env, started, reported>>

-----------------------------------------------------------------------------
(* install *)

\* the hand copy of the Make build: mkdir and shutil.copy2 succeed, or raise
\* an OSError (no vosk_api.h, no permission under the prefix)
CopyOutcomes == {"ok", "oserror"}

Install ==
    /\ pc = "install"
    /\ IF ~args.install
         THEN /\ Continue(<<>>, after("install"))
              /\ UNCHANGED <<started, cmds, given, host>>
         ELSE /\ Begin("install")
              /\ IF args.use_cmake
                   THEN \E o \in Outcomes :
                          RunCommand("cmake --install build", o,
                                     after("install"))
                   ELSE /\ UNCHANGED <<cmds, given, host>>
                        /\ \E c \in CopyOutcomes :
                             IF c = "ok"
                               THEN Continue(<<>>, after("install"))
                               ELSE Raise(<<>>, "Exception")
    /\ UNCHANGED <<argv, inherited, build_dir, summary, args, environ, probed,
                   missing_tools, packages_checked, dependencies_checked,
                   kaldi_root, env, reported>>

-----------------------------------------------------------------------------
(* print_summary, after which build and main return *)

YesNo(flag) == IF flag THEN "Yes" ELSE "No"

\* the [WARNING] lines of the program
WarningLines ==
    {"WARNING: Kaldi not found", "WARNING: Continuing without Kaldi",
     "WARNING: Java compiler not found", "WARNING: .NET SDK not found",
     "WARNING: C tests failed", "WARNING: Python tests failed"}

\* mutant of print_summary: the headline tells a run that printed a warning
\* from one that did not
print_summary_counts_warnings ==
    <<<<"headline",
        IF \E i \in DOMAIN out : out[i] \in WarningLines
          THEN "VOSK-API BUILD COMPLETED WITH WARNINGS"
          ELSE "VOSK-API BUILD COMPLETED SUCCESSFULLY">>,
      <<"Configuration", args.config>>,
      <<"Math Library", args.math_lib>>,
      <<"CUDA Support", YesNo(args.cuda)>>,
      <<"Build System", IF args.use_cmake THEN "CMake" ELSE "Make">>,
      <<"Python", YesNo(args.python)>>,
      <<"Java", YesNo(args.java)>>,
      <<"C#", YesNo(args.csharp)>>,
      <<"Python Usage", YesNo(args.python)>>,
      <<"Next Steps", "Yes">>>>

\* print_summary: the headline, then every line that depends on the run as
\* <<label, value>>; the sections Python Usage and Next Steps are fixed
\* text, printed or not
print_summary ==
    <<<<"headline", "VOSK-API BUILD COMPLETED SUCCESSFULLY">>,
      <<"Configuration", args.config>>,
      <<"Math Library", args.math_lib>>,
      <<"CUDA Support", YesNo(args.cuda)>>,
      <<"Build System", IF args.use_cmake THEN "CMake" ELSE "Make">>,
      <<"Python", YesNo(args.python)>>,
      <<"Java", YesNo(args.java)>>,
      <<"C#", YesNo(args.csharp)>>,
      <<"Python Usage", YesNo(args.python)>>,
      <<"Next Steps", "Yes">>>>

PrintSummary ==
    /\ pc = "print_summary"
    /\ Begin("print_summary")
    /\ summary' = print_summary
    /\ out' = Append(out, print_summary[1][2])
    /\ pc' = after("print_summary")
    /\ exitCode' = 0
    /\ UNCHANGED <<argv, inherited, build_dir, args, environ, probed,
                   missing_tools, packages_checked, dependencies_checked,
                   kaldi_root, env, cmds, given, reported, host>>

-----------------------------------------------------------------------------

Next ==
    \/ ParseArgs
    \/ Clean
    \/ CheckDependencies
    \/ ProbeTool
    \/ MissingCheck
    \/ PythonPackage
    \/ PipInstall
    \/ SetupKaldiEnvironment
    \/ SetupBuildEnvironment
    \/ BuildCppLibrary
    \/ CmakeBuild
    \/ BuildPythonBindings
    \/ PythonPackageBuild
    \/ BuildJavaBindings
    \/ JavaJar
    \/ JavaMake
    \/ BuildCsharpBindings
    \/ DotnetBuild
    \/ RunTests
    \/ TestsPython
    \/ Install
    \/ PrintSummary

Spec == Init /\ [][Next]_vars

\* the interpreter runs the next statement; every call returns or raises
FairSpec == Spec /\ WF_vars(Next)

-----------------------------------------------------------------------------
(* The runs that request no binding, no test and no installation, with      *)
(* every value of the remaining options, on hosts that export build         *)
(* variables and hold a build directory from an earlier run                 *)

\* the flag combinations that leave every optional stage out
PlainFlags ==
    {flags \in ArgsSpace :
       /\ ~flags.python /\ ~flags.java /\ ~flags.csharp
       /\ ~flags.wheel /\ ~flags.test /\ ~flags.install}

PlainArgv == {flags @@ options : flags \in PlainFlags, options \in OptionSpace}

\* what the host exports: nothing, one math-library variable, or all of
\* the variables setup_build_environment writes
ExportedSets == {{}, {"HAVE_MKL"}, BuildKeys}

OptionsInit == InitWith(PlainArgv, ExportedSets, {"absent", "old"})

\* the statements these runs can reach
OptionsNext ==
    \/ ParseArgs
    \/ Clean
    \/ CheckDependencies
    \/ ProbeTool
    \/ MissingCheck
    \/ PythonPackage
    \/ SetupKaldiEnvironment
    \/ SetupBuildEnvironment
    \/ BuildCppLibrary
    \/ CmakeBuild
    \/ BuildPythonBindings
    \/ BuildJavaBindings
    \/ BuildCsharpBindings
    \/ RunTests
    \/ Install
    \/ PrintSummary

OptionsSpec == OptionsInit /\ [][OptionsNext]_vars

-----------------------------------------------------------------------------
(* Vocabulary of the properties *)

Last(seq) == seq[Len(seq)]

Range(seq) == {seq[i] : i \in DOMAIN seq}

Summary == "VOSK-API BUILD COMPLETED SUCCESSFULLY"

Interrupted == "ERROR: Build interrupted by user"

\* the [ERROR] lines
ErrorLines ==
    {"ERROR: Command failed", "ERROR: Command not found",
     "ERROR: Missing required dependencies", "ERROR: Kaldi is required",
     "ERROR: Unexpected error", "ERROR: BuildError", Interrupted}

\* the statements of run_tests, whose failures are downgraded
TestStatements == {"run_tests", "tests_python"}

\* this step prints an [ERROR] line
PrintsError ==
    /\ Len(out') > Len(out)
    /\ \E i \in (Len(out) + 1)..Len(out') : out'[i] \in ErrorLines

\* the pipeline's stages, in the order of the specification
StageOrder ==
    <<"check_dependencies", "setup_kaldi_environment",
      "setup_build_environment", "build_cpp_library", "build_python_bindings",
      "build_java_bindings", "build_csharp_bindings", "run_tests", "install",
      "print_summary">>

StageIndex(s) == CHOOSE i \in DOMAIN StageOrder : StageOrder[i] = s

-----------------------------------------------------------------------------
(* C1: stages start in the fixed order verify dependencies, locate          *)
(* toolchain, synthesize environment, native core, Python, Java, C#, tests, *)
(* install, summary; a stage starts only from build's own statement that    *)
(* calls it, that is once the stage before it has returned, and never       *)
(* before a stage that precedes it in the list.                             *)
C1_StagesStartInOrder ==
    [][started' # started =>
         /\ pc \in Range(StageOrder)
         /\ started' = Append(started, pc)
         /\ \A k \in DOMAIN started :
              StageIndex(started[k]) < StageIndex(pc)]_vars

\* a run in which all ten stages started
C1_Witness == pc = "exit" /\ started = StageOrder

-----------------------------------------------------------------------------
(* C2: once a stage has a fatal outcome (an [ERROR] line printed outside    *)
(* the test stage) the run ends at once: no further step is taken, the      *)
(* summary is not printed and the exit code is nonzero.  Every run ends;    *)
(* a run that ends without a fatal or interrupted last line has printed the *)
(* summary and exits 0, warnings or not.                                    *)
C2_FatalStopsElseSummary ==
    /\ [][PrintsError /\ pc \notin TestStatements =>
            pc' = "exit" /\ exitCode' # 0]_vars
    /\ [][pc # "exit"]_vars
    /\ [](pc = "exit" /\ exitCode # 0 =>
            Summary \notin Range(out) /\ Last(out) \in ErrorLines)
    /\ [](pc = "exit" /\ exitCode = 0 =>
            Last(out) = Summary /\ Last(started) = "print_summary")
    /\ <>(pc = "exit")

\* a run stopped by a failed Java build after a warning from the locator
C2_Witness ==
    /\ pc = "exit"
    /\ exitCode # 0
    /\ Last(started) = "build_java_bindings"
    /\ "WARNING: Continuing without Kaldi" \in Range(out)
    /\ Last(out) = "ERROR: Command failed"

-----------------------------------------------------------------------------
(* C3: with bindings_only the locator and the backend driver are never      *)
(* invoked and no cmake configure, cmake build or make-in-src subprocess is *)
(* started, whatever the other flags.                                       *)
C3_BindingsOnlySkipsNativeCore ==
    args.bindings_only =>
        /\ "setup_kaldi_environment" \notin Range(started)
        /\ "build_cpp_library" \notin Range(started)
        /\ pc # "cmake_build"
        /\ kaldi_root = "not called"
        /\ host.toolchain = "unprobed"
        /\ cmds \cap {"cmake -B build -S .", "cmake --build build",
                      "make -C src"} = {}

\* a bindings-only run with --force and --use-cmake that reached the end
C3_Witness ==
    /\ args.bindings_only /\ args.force /\ args.use_cmake
    /\ args.python /\ args.install
    /\ pc = "exit"
    /\ exitCode = 0

-----------------------------------------------------------------------------
(* C4: when some of the five required tools are missing, for every          *)
(* configuration (--force and --bindings-only included): no stage after the *)
(* dependency check is started and no command is run; unless Ctrl-C cuts    *)
(* the probing short, the run ends only after all five tools were probed,   *)
(* with a single error report that names exactly the missing tools, and     *)
(* with a nonzero exit code.                                                *)
MissingRequired == host.absent \cap Range(RequiredTools)

-----------------------------------------------------------------------------
(* C5: a requested Java binding without javac or jar, or a requested C#     *)
(* binding without dotnet, warns, starts no build command of that binding   *)
(* and hands over to the next stage with the exit code and the commands run *)
(* untouched, as the step of a binding that was not requested does; a       *)
(* nonzero exit code is never that stage's.                                 *)
JavaTools == {"javac", "jar"}

C5_JavaStep ==
    pc \in {"build_java_bindings", "java_jar"} /\ host'.absent # host.absent =>
        /\ out' = Append(out, "WARNING: Java compiler not found")
        /\ pc' = "build_csharp_bindings"
        /\ cmds' = cmds
        /\ exitCode' = exitCode

C5_CsharpStep ==
    pc = "build_csharp_bindings" /\ host'.absent # host.absent =>
        /\ out' = Append(out, "WARNING: .NET SDK not found")
        /\ pc' = "run_tests"
        /\ cmds' = cmds
        /\ exitCode' = exitCode

C5_JavaSkipped ==
    host.absent \cap JavaTools # {} =>
        /\ "make -C java" \notin cmds
        /\ pc # "java_make"
        /\ pc = "exit" /\ exitCode # 0 => Last(started) # "build_java_bindings"

C5_CsharpSkipped ==
    "dotnet" \in host.absent =>
        /\ "dotnet build" \notin cmds
        /\ pc # "dotnet_build"
        /\ pc = "exit" /\ exitCode # 0 =>
             Last(started) # "build_csharp_bindings"

\* C5: a missing Java or C# toolchain warns, builds nothing and hands over to
\* the next stage; a nonzero exit code is never that stage's
C5_MissingBindingToolchainWarns ==
    /\ [][C5_JavaStep]_vars
    /\ [][C5_CsharpStep]_vars
    /\ [](C5_JavaSkipped /\ C5_CsharpSkipped)

\* jar and dotnet are missing and the run ends with the summary and exit 0
C5_Witness ==
    /\ args.java /\ args.csharp
    /\ host.absent = {"jar", "dotnet"}
    /\ pc = "exit"
    /\ exitCode = 0
    /\ Last(out) = Summary

-----------------------------------------------------------------------------
(* C6, as stated: when `make` in java/ or `dotnet build` in csharp/ exits   *)
(* nonzero the pipeline goes on with the next stage and the exit code is    *)
(* left alone.                                                              *)
C6_JavaBuildFails ==
    pc = "java_make" /\ <<"make -C java", "nonzero">> \in host'.failed

C6_CsharpBuildFails ==
    pc = "dotnet_build" /\ <<"dotnet build", "nonzero">> \in host'.failed

C6_OriginalStep ==
    /\ C6_JavaBuildFails =>
         pc' = "build_csharp_bindings" /\ exitCode' = exitCode
    /\ C6_CsharpBuildFails => pc' = "run_tests" /\ exitCode' = exitCode

C6_AmendedStep ==
    C6_JavaBuildFails \/ C6_CsharpBuildFails =>
        /\ out' = Append(out, "ERROR: Command failed")
        /\ pc' = "exit"
        /\ exitCode' # 0
        /\ started' = started

C6_AfterFailure ==
    \/ <<"make -C java", "nonzero">> \in host.failed
    \/ <<"dotnet build", "nonzero">> \in host.failed

-----------------------------------------------------------------------------
(* C7, as stated: when a build command of the Python binding exits nonzero, *)
(* without --force the run ends with a nonzero exit code, and with --force  *)
(* the pipeline goes on with the Java binding stage.                        *)
PythonCommands ==
    {"python vosk_builder.py", "python setup.py bdist_wheel",
     "pip install -e ."}

C7_PythonBuildFails ==
    /\ pc \in {"build_python_bindings", "python_package"}
    /\ \E c \in PythonCommands :
         <<c, "nonzero">> \in host'.failed /\ <<c, "nonzero">> \notin host.failed

C7_OriginalStep ==
    C7_PythonBuildFails =>
        IF args.force
          THEN pc' = "build_java_bindings" /\ exitCode' = exitCode
          ELSE pc' = "exit" /\ exitCode' # 0

C7_AmendedStep ==
    C7_PythonBuildFails =>
        /\ out' = Append(out, "ERROR: Command failed")
        /\ pc' = "exit"
        /\ exitCode' # 0
        /\ Last(started') = "build_python_bindings"

-----------------------------------------------------------------------------
(* C8: a test command that exits nonzero or is not found never aborts the   *)
(* run: the C test's failure prints "C tests failed" as a warning and the   *)
(* Python test comes next, the Python test's failure prints "Python tests   *)
(* failed" and install comes next, the exit code is left alone, and a run   *)
(* with a failed test ends in install or in the summary.                    *)
TestCommands == {"make -C c", "python -c import vosk"}

C8_CTestStep ==
    pc = "run_tests" /\ host'.failed # host.failed =>
        /\ Last(out') = "WARNING: C tests failed"
        /\ pc' = "tests_python"
        /\ exitCode' = exitCode

C8_PythonTestStep ==
    pc = "tests_python" /\ host'.failed # host.failed =>
        /\ Last(out') = "WARNING: Python tests failed"
        /\ pc' = "install"
        /\ exitCode' = exitCode

C8_AfterFailure ==
    (\E c \in TestCommands, o \in Outcomes : <<c, o>> \in host.failed) =>
        /\ pc \in {"tests_python", "install", "print_summary", "exit"}
        /\ pc = "exit" => Last(started) \in {"install", "print_summary"}
        /\ pc = "exit" /\ exitCode # 0 => Last(started) = "install"

\* C8: a failed test warns, the next test and install follow, and the exit
\* code is never the test stage's
C8_TestFailuresAreWarnings ==
    /\ [][C8_CTestStep]_vars
    /\ [][C8_PythonTestStep]_vars
    /\ [](C8_AfterFailure)

\* both tests failed, one by its exit code and one for want of the command,
\* and the run ended with the summary
C8_Witness ==
    /\ <<"make -C c", "nonzero">> \in host.failed
    /\ <<"python -c import vosk", "notfound">> \in host.failed
    /\ args.install
    /\ pc = "exit"
    /\ exitCode = 0
    /\ Last(out) = Summary

-----------------------------------------------------------------------------
(* C9: once Ctrl-C has hit a blocking subprocess call of any stage, the     *)
(* test stage included, the run has ended: its last line is "Build          *)
(* interrupted by user", the summary is not printed and the exit code is    *)
(* nonzero.                                                                 *)
C9_InterruptTerminates ==
    host.interrupted # {} =>
        /\ pc = "exit"
        /\ exitCode # 0
        /\ Last(out) = Interrupted
        /\ Summary \notin Range(out)

-----------------------------------------------------------------------------
(* C10: when the native core is built and Kaldi is found neither through    *)
(* KALDI_ROOT nor in the search list, the setup guidance is printed; then   *)
(* without --force the run ends in the locator with a nonzero exit code,    *)
(* and with --force the locator returns None and the native-core stage is   *)
(* the next stage but one: it is pending or has started, unless the stage   *)
(* between them could not create the build directory.                       *)
C10_ToolchainNotFound ==
    host.toolchain = "none" =>
        /\ ~args.bindings_only
        /\ "Kaldi Setup Instructions" \in Range(out)
        /\ ~args.force =>
             /\ out = <<"WARNING: Kaldi not found", "Kaldi Setup Instructions",
                        "ERROR: Kaldi is required">>
             /\ pc = "exit"
             /\ exitCode # 0
             /\ Last(started) = "setup_kaldi_environment"
        /\ args.force =>
             /\ kaldi_root = "None"
             /\ "WARNING: Continuing without Kaldi" \in Range(out)
             /\ \/ pc \in {"setup_build_environment", "build_cpp_library"}
                \/ "build_cpp_library" \in Range(started)
                \/ /\ Last(started) = "setup_build_environment"
                   /\ Last(out) = "ERROR: Unexpected error"

\* Kaldi is not found under --force and the native build was started
C10_Witness ==
    /\ host.toolchain = "none"
    /\ args.force
    /\ environ = "$KALDI_ROOT"
    /\ "make -C src" \in cmds

-----------------------------------------------------------------------------
(* Vocabulary of the properties about the summary and the environments *)

\* the [WARNING] lines the run has printed
Warned == {out[i] : i \in DOMAIN out} \cap WarningLines

\* the summary of the configuration `a`, as a run without a warning prints it
SummaryOf(a) ==
    <<<<"headline", Summary>>,
      <<"Configuration", a.config>>,
      <<"Math Library", a.math_lib>>,
      <<"CUDA Support", YesNo(a.cuda)>>,
      <<"Build System", IF a.use_cmake THEN "CMake" ELSE "Make">>,
      <<"Python", YesNo(a.python)>>,
      <<"Java", YesNo(a.java)>>,
      <<"C#", YesNo(a.csharp)>>,
      <<"Python Usage", YesNo(a.python)>>,
      <<"Next Steps", "Yes">>>>

-----------------------------------------------------------------------------
-----------------------------------------------------------------------------
(* Vocabulary of the properties about the synthesized environment *)

\* setup_build_environment has returned its mapping
Synthesized == DOMAIN env = EnvKeys

\* the compiler flags in a value of EXTRA_CFLAGS
CFlags(value) ==
    CASE value = "-O3 -DNDEBUG" -> {"-O3", "-DNDEBUG"}
      [] value = "-g -O0"       -> {"-g", "-O0"}
      [] value = "-O2 -g"       -> {"-O2", "-g"}
      [] OTHER                  -> {}

\* the environment of the build process, as the host exported it and as the
\* locator left KALDI_ROOT
ProcessEnvironment ==
    [k \in EnvKeys |->
       CASE k = "KALDI_ROOT" -> environ
         [] k \in inherited  -> HostValue
         [] OTHER            -> "unset"]

-----------------------------------------------------------------------------
(* C12, as stated: in the synthesized environment Debug gives -O0 and       *)
(* CMAKE_BUILD_TYPE=Debug, Release gives -O3 and CMAKE_BUILD_TYPE=Release,  *)
(* and a command line without --config gives -O2, whatever the host         *)
(* exports.                                                                 *)
C12_Original ==
    Synthesized =>
        /\ argv.config = "Debug" =>
             /\ "-O0" \in CFlags(env["EXTRA_CFLAGS"])
             /\ env["CMAKE_BUILD_TYPE"] = "Debug"
        /\ argv.config = "Release" =>
             /\ "-O3" \in CFlags(env["EXTRA_CFLAGS"])
             /\ env["CMAKE_BUILD_TYPE"] = "Release"
        /\ argv.config = Omitted => "-O2" \in CFlags(env["EXTRA_CFLAGS"])

(* C12, amended: Debug gives -O0 and CMAKE_BUILD_TYPE=Debug; Release, which *)
(* is also the profile of a command line without --config, gives -O3 and    *)
(* CMAKE_BUILD_TYPE=Release; RelWithDebInfo gives -O2 and                   *)
(* CMAKE_BUILD_TYPE=RelWithDebInfo; whatever the host exports.              *)
C12_ProfileFlags ==
    Synthesized =>
        /\ argv.config = "Debug" =>
             /\ "-O0" \in CFlags(env["EXTRA_CFLAGS"])
             /\ env["CMAKE_BUILD_TYPE"] = "Debug"
        /\ argv.config \in {"Release", Omitted} =>
             /\ "-O3" \in CFlags(env["EXTRA_CFLAGS"])
             /\ env["CMAKE_BUILD_TYPE"] = "Release"
        /\ argv.config = "RelWithDebInfo" =>
             /\ "-O2" \in CFlags(env["EXTRA_CFLAGS"])
             /\ env["CMAKE_BUILD_TYPE"] = "RelWithDebInfo"

\* no --config on a host that exports EXTRA_CFLAGS and CMAKE_BUILD_TYPE
C12_Witness ==
    /\ Synthesized
    /\ argv.config = Omitted
    /\ {"EXTRA_CFLAGS", "CMAKE_BUILD_TYPE"} \subseteq inherited
    /\ env["EXTRA_CFLAGS"] = "-O3 -DNDEBUG"

-----------------------------------------------------------------------------
(* C13, as stated: in the synthesized environment openblas gives            *)
(* HAVE_OPENBLAS_CLAPACK=1 and HAVE_MKL=0, mkl gives the inverse, auto      *)
(* leaves both unset, and HAVE_CUDA is 1 with --cuda and 0 without,         *)
(* whatever the host exports.                                               *)
C13_Original ==
    Synthesized =>
        /\ args.math_lib = "openblas" =>
             env["HAVE_OPENBLAS_CLAPACK"] = "1" /\ env["HAVE_MKL"] = "0"
        /\ args.math_lib = "mkl" =>
             env["HAVE_MKL"] = "1" /\ env["HAVE_OPENBLAS_CLAPACK"] = "0"
        /\ args.math_lib = "auto" =>
             env["HAVE_OPENBLAS_CLAPACK"] = "unset" /\ env["HAVE_MKL"] = "unset"
        /\ env["HAVE_CUDA"] = IF args.cuda THEN "1" ELSE "0"

(* C13, amended: openblas, mkl and cuda as stated; auto writes neither      *)
(* variable, so each of HAVE_OPENBLAS_CLAPACK and HAVE_MKL is in the        *)
(* synthesized environment exactly as the host exported it, and is unset    *)
(* only if the host did not export it.                                      *)
C13_MathLibraryEntries ==
    Synthesized =>
        /\ args.math_lib = "openblas" =>
             env["HAVE_OPENBLAS_CLAPACK"] = "1" /\ env["HAVE_MKL"] = "0"
        /\ args.math_lib = "mkl" =>
             env["HAVE_MKL"] = "1" /\ env["HAVE_OPENBLAS_CLAPACK"] = "0"
        /\ args.math_lib = "auto" =>
             \A k \in {"HAVE_OPENBLAS_CLAPACK", "HAVE_MKL"} :
                env[k] = IF k \in inherited THEN HostValue ELSE "unset"
        /\ env["HAVE_CUDA"] = IF args.cuda THEN "1" ELSE "0"

\* auto with CUDA on a host that exports HAVE_MKL and HAVE_CUDA
C13_Witness ==
    /\ Synthesized
    /\ args.math_lib = "auto"
    /\ args.cuda
    /\ {"HAVE_MKL", "HAVE_CUDA"} \subseteq inherited
    /\ env["HAVE_MKL"] = HostValue
    /\ env["HAVE_CUDA"] = "1"

-----------------------------------------------------------------------------
(* C14, as stated: the synthesized environment is a function of the         *)
(* configuration alone, the one a host that exports nothing gives when the  *)
(* locator has written nothing, and the synthesizer creates nothing in the  *)
(* file system.                                                             *)
C14_Original ==
    Synthesized =>
        /\ env = Overlay(Overlay(Overlay([k \in EnvKeys |-> "unset"],
                                         config_entries(args.config)),
                                 math_lib_entries(args.math_lib)),
                         cuda_entries(args.cuda))
        /\ build_dir # "fresh"

\* the step of setup_build_environment
C14_SynthesizerStep ==
    pc = "setup_build_environment" =>
        /\ environ' = environ
        /\ build_dir' = IF build_dir = "absent" /\ pc' # "exit"
                          THEN "fresh"
                          ELSE build_dir

(* C14, amended: the synthesized environment is a function of the           *)
(* configuration and of the process environment at the time of the call:    *)
(* on the keys the configuration writes it holds the configuration's        *)
(* values, on every other key (KALDI_ROOT as the locator left it included)  *)
(* the value of the process environment.  The call leaves the process       *)
(* environment alone and creates the build directory if it is absent.       *)
C14_SeededFromProcessEnvironment ==
    /\ [](Synthesized =>
            \A k \in EnvKeys :
               \/ k \in DOMAIN config_entries(args.config)
               \/ k \in DOMAIN math_lib_entries(args.math_lib)
               \/ k \in DOMAIN cuda_entries(args.cuda)
               \/ env[k] = ProcessEnvironment[k])
    /\ [][C14_SynthesizerStep]_vars

\* the locator wrote KALDI_ROOT, the host exports HAVE_MKL, and the
\* synthesizer created the build directory
C14_Witness ==
    /\ Synthesized
    /\ host.toolchain = "list"
    /\ env["KALDI_ROOT"] = "/opt/kaldi"
    /\ inherited = {"HAVE_MKL"}
    /\ env["HAVE_MKL"] = HostValue
    /\ host.build_dir = "absent"
    /\ build_dir = "fresh"

-----------------------------------------------------------------------------
(* Vocabulary of the properties about the subprocess environments *)

\* the subprocesses of the native-core stage
NativeCommands == {"cmake -B build -S .", "cmake --build build", "make -C src"}

\* the subprocesses started after setup_build_environment has returned
Downstream == {g \in given : g[1] # "pip install"}

-----------------------------------------------------------------------------
(* C15, as stated: every subprocess started after the synthesis is given    *)
(* the synthesized mapping, and so sees CMAKE_BUILD_TYPE, EXTRA_CFLAGS and  *)
(* HAVE_CUDA with the values the configuration gives.                       *)
C15_Original ==
    Synthesized =>
        \A g \in Downstream :
           /\ g[2] = env
           /\ \A k \in {"CMAKE_BUILD_TYPE", "EXTRA_CFLAGS", "HAVE_CUDA"} :
                g[2][k] = env[k]

\* the mapping is assigned by setup_build_environment and by nothing else
C15_EnvStep ==
    env' # env => pc = "setup_build_environment" /\ ~Synthesized

(* C15, amended: the mapping is synthesized once per run and handed to the  *)
(* subprocesses of the native-core stage only.  The Python binding          *)
(* commands get a copy of the process environment with VOSK_SOURCE added;   *)
(* the Java and C# builds, the test commands and cmake --install get the    *)
(* process environment itself.  Those see KALDI_ROOT as the locator left    *)
(* it, and CMAKE_BUILD_TYPE, EXTRA_CFLAGS and HAVE_CUDA only as the host    *)
(* exported them: not at all on a host that exports none.                   *)
C15_EnvironmentPerStage ==
    /\ [][C15_EnvStep]_vars
    /\ [](\A g \in Downstream :
            /\ g[1] \in NativeCommands => g[2] = env
            /\ g[1] \in PythonCommands =>
                 g[2] = [ProcessEnvironment EXCEPT !["VOSK_SOURCE"] = "repo_root"]
            /\ g[1] \notin NativeCommands \cup PythonCommands =>
                 g[2] = ProcessEnvironment
            /\ g[2]["KALDI_ROOT"] = environ
            /\ g[1] \notin NativeCommands /\ inherited = {} =>
                 \A k \in BuildKeys : g[2][k] = "unset")

\* a run that started a subprocess of every stage after the synthesis
C15_Witness ==
    /\ Synthesized
    /\ env["CMAKE_BUILD_TYPE"] = "Release"
    /\ {"cmake --build build", "pip install -e .", "make -C java",
         "dotnet build", "make -C c", "python -c import vosk",
         "cmake --install build"} \subseteq {g[1] : g \in Downstream}

-----------------------------------------------------------------------------
(* Vocabulary of the properties about the command line *)

\* --config or --math-lib carries a word that is none of its choices
InvalidChoice ==
    \/ argv.config \notin {"Debug", "Release", "RelWithDebInfo", Omitted}
    \/ argv.math_lib \notin {"openblas", "mkl", "auto", Omitted}

\* the native-core stage is about to start or has started
AtNativeCore ==
    \/ pc = "build_cpp_library" /\ ~args.bindings_only
    \/ "build_cpp_library" \in Range(started)

-----------------------------------------------------------------------------
(* C16: with --clean, once any stage has started the build directory holds  *)
(* nothing from before the run, and when the native-core stage starts (and  *)
(* from then on) the directory exists and holds nothing from before the     *)
(* run, whether or not it existed when the run began.                       *)
C16_CleanRecreatesBuildDir ==
    argv.clean =>
        /\ started # <<>> => build_dir # "old"
        /\ AtNativeCore => build_dir = "fresh"

\* --clean over a build directory of an earlier run, native build started
C16_Witness ==
    /\ argv.clean
    /\ host.build_dir = "old"
    /\ "make -C src" \in cmds
    /\ build_dir = "fresh"

-----------------------------------------------------------------------------
(* C17: a --config or --math-lib value outside the choices ends the run in  *)
(* parse_args with a nonzero exit code: no stage starts, no log line is     *)
(* printed, no tool is probed, no subprocess is run and the build directory *)
(* stays as it was, with --clean too.                                       *)
C17_InvalidChoiceRejected ==
    InvalidChoice =>
        /\ pc \in {"parse_args", "exit"}
        /\ pc = "exit" => exitCode # 0
        /\ started = <<>>
        /\ out = <<>>
        /\ summary = <<>>
        /\ probed = <<>>
        /\ cmds = {} /\ given = {}
        /\ build_dir = host.build_dir
        /\ host.oserror = {}

\* --math-lib atlas with --clean over an existing build directory
C17_Witness ==
    /\ argv.math_lib = "atlas"
    /\ argv.config = "Debug"
    /\ argv.clean
    /\ pc = "exit"
    /\ build_dir = "old"

-----------------------------------------------------------------------------
(* C18: with --bindings-only, no binding, no test and no installation, on a *)
(* host that has every required tool, a run that is not interrupted and     *)
(* whose file-system calls succeed starts no subprocess, never looks for    *)
(* Kaldi, and ends with the summary and exit code 0, for every --config,    *)
(* --math-lib and --cuda.                                                   *)
C18_BindingsOnlyDryRun ==
    /\ args.bindings_only
    /\ ~args.python /\ ~args.java /\ ~args.csharp
    /\ ~args.test /\ ~args.install
    /\ ~InvalidChoice
    /\ host.absent = {} /\ host.interrupted = {} /\ host.oserror = {}
    =>  /\ cmds = {}
        /\ host.toolchain = "unprobed"
        /\ kaldi_root = "not called"
        /\ started \in {SubSeq(<<"check_dependencies", "setup_build_environment",
                                  "print_summary">>, 1, n) : n \in 0..3}
        /\ pc = "exit" =>
             /\ exitCode = 0
             /\ Last(started) = "print_summary"
             /\ summary = SummaryOf(args)

\* a finished dry run of --config Debug --math-lib mkl --cuda
C18_Witness ==
    /\ pc = "exit"
    /\ exitCode = 0
    /\ args.bindings_only
    /\ args.config = "Debug" /\ args.math_lib = "mkl" /\ args.cuda
    /\ Len(probed) = Len(RequiredTools)
    /\ host.absent = {}
    /\ cmds = {}
    /\ summary # <<>>

-----------------------------------------------------------------------------
(* Vocabulary of the properties about the backend and the locator *)

GeneratorCommands == {"cmake -B build -S .", "cmake --build build"}

DirectCommands == {"make -C src"}

\* the host answered `cmd` with a nonzero exit or had no such executable
Failed(cmd) == \E o \in {"nonzero", "notfound"} : <<cmd, o>> \in host.failed

\* the stages after the native core
LaterStages ==
    {"build_python_bindings", "build_java_bindings", "build_csharp_bindings",
     "run_tests", "install", "print_summary"}

-----------------------------------------------------------------------------
(* C19: a run starts backend subprocesses of one strategy only, the one     *)
(* --use-cmake selects: with it the configure call, and the build call only *)
(* after a configure call that exited zero; without it only make in src.    *)
(* A backend subprocess that exits nonzero ends the run in the native-core  *)
(* stage with a nonzero exit code, no later stage and no summary, with or   *)
(* without --force.                                                         *)
C19_BackendStrategy ==
    /\ cmds \cap GeneratorCommands = {} \/ cmds \cap DirectCommands = {}
    /\ cmds \cap GeneratorCommands # {} => args.use_cmake
    /\ cmds \cap DirectCommands # {} => ~args.use_cmake
    /\ "cmake --build build" \in cmds =>
         /\ "cmake -B build -S ." \in cmds
         /\ ~Failed("cmake -B build -S .")
         /\ "cmake -B build -S ." \notin host.interrupted
    /\ \A c \in GeneratorCommands \cup DirectCommands :
         <<c, "nonzero">> \in host.failed =>
            /\ pc = "exit"
            /\ exitCode # 0
            /\ Last(started) = "build_cpp_library"
            /\ Range(started) \cap LaterStages = {}
            /\ Last(out) = "ERROR: Command failed"
            /\ summary = <<>>

\* under --force the configure call succeeded and the build call exited
\* nonzero
C19_Witness ==
    /\ args.force
    /\ args.python /\ args.test
    /\ cmds \cap (GeneratorCommands \cup DirectCommands) = GeneratorCommands
    /\ <<"cmake --build build", "nonzero">> \in host.failed
    /\ pc = "exit"

-----------------------------------------------------------------------------
(* C20: if KALDI_ROOT names an existing directory the locator returns it    *)
(* and writes nothing; otherwise it returns an entry of the search list     *)
(* that exists and holds src/, and then KALDI_ROOT is that path in the      *)
(* environment of every later subprocess, or it finds nothing and leaves    *)
(* the process environment as it was.                                       *)
C20_ResolutionOrder ==
    host.toolchain # "unprobed" /\ kaldi_root # "not called" =>
        IF host.kaldi_root_names = "directory"
          THEN /\ kaldi_root = "$KALDI_ROOT"
               /\ environ = "$KALDI_ROOT"
          ELSE \/ /\ host.toolchain = "list"
                  /\ kaldi_root \in Range(CommonKaldiPaths)
                  /\ environ = kaldi_root
                  /\ \A g \in Downstream : g[2]["KALDI_ROOT"] = kaldi_root
               \/ /\ host.toolchain = "none"
                  /\ kaldi_root = "None"
                  /\ environ \in InheritedKaldiRoot

-----------------------------------------------------------------------------
(* Vocabulary of the properties about the language packages *)

PackageStatements == {"python_packages", "pip_install"}

\* the package loop has handled a package or is installing one
PackagesTouched == packages_checked > 0 \/ pc = "pip_install"

\* a turn of the package loop: the package imports, or it is missing and
\* its install is next; nothing is printed, run or decided
C21_CheckStep ==
    pc = "python_packages" /\ packages_checked' # packages_checked =>
        /\ packages_checked' = packages_checked + 1
        /\ pc' \in PackageStatements
        /\ UNCHANGED <<cmds, given, out, exitCode, started>>

\* the install is entered from the check of the package it installs
C21_EnterInstall ==
    pc' = "pip_install" /\ pc # "pip_install" =>
        pc = "python_packages" /\ packages_checked' = packages_checked + 1

\* the install is one subprocess; after it the loop is at the next package
\* or the run has ended, and the package is not checked again
C21_InstallStep ==
    pc = "pip_install" =>
        /\ "pip install" \in cmds'
        /\ packages_checked' = packages_checked
        /\ \/ /\ pc' = "python_packages"
              /\ host'.failed = host.failed
              /\ UNCHANGED <<out, exitCode>>
           \/ /\ pc' = "exit"
              /\ exitCode' # 0

\* a failed install has ended the run inside check_dependencies
C21_AfterFailure ==
    Failed("pip install") =>
        /\ pc = "exit"
        /\ exitCode # 0
        /\ Last(out) \in {"ERROR: Command failed", "ERROR: Command not found"}
        /\ started = <<"check_dependencies">>
        /\ ~dependencies_checked
        /\ summary = <<>>

(* C21: the package check runs only when the Python binding is requested    *)
(* and only after all five required tools were found.  A missing package    *)
(* is not fatal: it leads to one install subprocess for that package, and   *)
(* after a successful install the loop goes on with the next package.  An   *)
(* install that exits nonzero ends the run in check_dependencies with a     *)
(* nonzero exit code, with or without --force.                              *)
C21_PackageCheck ==
    /\ [](PackagesTouched =>
            /\ args.python
            /\ Len(probed) = Len(RequiredTools)
            /\ MissingRequired = {}
            /\ missing_tools = <<>>)
    /\ [][C21_CheckStep]_vars
    /\ [][C21_EnterInstall]_vars
    /\ [][C21_InstallStep]_vars
    /\ []C21_AfterFailure

\* under --force the loop reached the third package and an install exited
\* nonzero
C21_Witness ==
    /\ args.force
    /\ packages_checked = Len(PythonPackages)
    /\ <<"pip install", "nonzero">> \in host.failed
    /\ pc = "exit"
    /\ exitCode # 0

-----------------------------------------------------------------------------
(* Vocabulary of the properties about error *)

\* the positions of the [ERROR] lines printed so far
ErrorPositions == {i \in DOMAIN out : out[i] \in ErrorLines}

TestWarnings == {"WARNING: C tests failed", "WARNING: Python tests failed"}

-----------------------------------------------------------------------------
(* C22, as stated: once an [ERROR] line is printed the run has ended with   *)
(* exit code 1, the [ERROR] line is the last line, and the summary is not   *)
(* printed, in the test stage as everywhere else.                           *)
C22_Original ==
    ErrorPositions # {} =>
        /\ pc = "exit"
        /\ exitCode = 1
        /\ Last(out) \in ErrorLines
        /\ summary = <<>>

\* error outside the test stage ends the run
C22_ErrorStep ==
    PrintsError /\ pc \notin TestStatements =>
        /\ pc' = "exit"
        /\ exitCode' = 1
        /\ Last(out') \in ErrorLines
        /\ summary' = <<>>

\* error reached through run_command in the test stage: the [ERROR] line
\* of run_command is followed by the test's warning and the run goes on
C22_TestErrorStep ==
    PrintsError /\ pc \in TestStatements =>
        /\ Len(out') = Len(out) + 2
        /\ out'[Len(out) + 1] \in
              {"ERROR: Command failed", "ERROR: Command not found"}
        /\ out'[Len(out) + 2] \in TestWarnings
        /\ pc' # "exit"
        /\ exitCode' = exitCode

(* C22, amended: error ends the run wherever it is called outside the test  *)
(* stage: nothing runs after it, the summary is not printed and the exit    *)
(* code is 1.  Reached through run_command inside the test stage, its       *)
(* SystemExit is caught by the bare except of run_tests: the [ERROR] line   *)
(* is followed by the test's warning, the run goes on and can end with the  *)
(* summary and exit code 0.  So an [ERROR] line that is not the last line   *)
(* printed is one of the test stage, followed by its warning.               *)
C22_ErrorEndsRunOutsideTests ==
    /\ [][C22_ErrorStep]_vars
    /\ [][C22_TestErrorStep]_vars
    /\ [](\A i \in ErrorPositions :
            \/ i = Len(out) /\ pc = "exit" /\ exitCode = 1 /\ summary = <<>>
            \/ /\ i < Len(out)
               /\ out[i + 1] \in TestWarnings
               /\ "run_tests" \in Range(started))

\* both tests failed through error and the run ended with the summary
C22_Witness ==
    /\ pc = "exit"
    /\ exitCode = 0
    /\ summary # <<>>
    /\ <<"make -C c", "nonzero">> \in host.failed
    /\ <<"python -c import vosk", "notfound">> \in host.failed
    /\ "ERROR: Command failed" \in Range(out)
    /\ "ERROR: Command not found" \in Range(out)

====
